---- MODULE Spec2Model ----
(***************************************************************************)
(* Session / job status tracking of desto: the status tracker over the     *)
(* key-value store (src/desto/redis/status_tracker.py), the completion     *)
(* helper (scripts/mark_job_finished.py), the tmux launcher and its        *)
(* monitor (src/desto/app/sessions.py) and the CLI launcher                *)
(* (src/desto/cli/session_manager.py).                                     *)
(*                                                                         *)
(* The store is a map from keys to hashes (field -> string).  A call of    *)
(* the store may fail; every operation takes the set F of its store calls  *)
(* that fail in this invocation, so a store that is down, a store that     *)
(* fails on a single call and a healthy store are all covered.             *)
(***************************************************************************)
EXTENDS Integers, Sequences, FiniteSets, TLC

VARIABLES
    now,        \* the wall clock, datetime.now(), in seconds
    store,      \* key -> hash (a function from field names to strings)
    ttl,        \* key -> {} (no expiry) or {t} (the key expires at time t)
    lastOp,     \* the last call made: its arguments, failing store calls and outcome
    calls,      \* the number of calls made so far
    tmux,       \* session name -> the tmux session of that name and the script it runs
    monitors,   \* session name -> number of running monitor threads of TmuxManager
    files,      \* the files that exist under LOG_DIR (and the log files that hold output)
    tm,         \* the TmuxManager: desto_manager (set or None), use_redis
    cli,        \* CLISessionManager.sessions: the names started by this CLI process
    procs,      \* session name -> the launch in progress for it and the monitor thread
                \* of start_scheduled_session.py
    logs        \* owner -> its log_messages list and the number of messages it was given

lvars == <<tmux, monitors, files, tm, cli, procs, logs>>

vars == <<now, store, ttl, lastOp, calls, tmux, monitors, files, tm, cli, procs, logs>>

----------------------------------------------------------------------------
(* Bounds *)

MaxTime == 1
MaxCalls == 2
MaxMessages == 25

Names == {"s1"}
ExitCodes == {0, 1, 2}
Commands == {"cmd"}

----------------------------------------------------------------------------
(* Program constants *)

ExpireSeconds == 604800

\* the default of number_of_lines in update_log_messages
DefaultNumberOfLines == 20

----------------------------------------------------------------------------
(* Conversions *)

\* datetime.isoformat() and datetime.fromisoformat()
IsoFormat(t) == "T" \o ToString(t)
FromIsoFormat(s) == CHOOSE t \in 0..(MaxTime + 1) : IsoFormat(t) = s

\* str(timedelta): "0:00:05", and "-1 day, 23:59:59" for a negative difference
StrTimedelta(d) ==
    IF d < 0 THEN "-1 day, 23:59:" \o ToString(60 + d)
    ELSE IF d < 10 THEN "0:00:0" \o ToString(d)
    ELSE "0:00:" \o ToString(d)

\* str(int)
Str(i) == ToString(i)

----------------------------------------------------------------------------
(* The store *)

NoRec == [f \in {} |-> ""]

\* The failing store calls of one invocation: none, a single one, or all of
\* them (the store is down).
FaultSets(P) == {{}} \cup {{p} : p \in P} \cup {P}

get_session_key(session_name) == "desto:session:" \o session_name

Keys == {get_session_key(n) : n \in Names}

\* a write that keeps the fields already stored (first write wins)
hset_keep(rec, mapping) == rec @@ mapping

\* HSET key mapping: sets the given fields, keeps every other field of the hash
hset(rec, mapping) == mapping @@ rec

\* dict.get(field) seen as a truth value: present and not empty
Truthy(rec, field) == field \in DOMAIN rec /\ rec[field] # ""

JobFields == {"job_status", "job_exit_code", "job_error", "job_finished_time", "job_elapsed"}

----------------------------------------------------------------------------
(* Status tracker *)

_publish_status_update(session_name, t, data) ==
    data @@ [session_name |-> session_name, timestamp |-> IsoFormat(t)]

\* The outcome of a tracker call: the store after it, whether it raised, the
\* field map it built, whether that map was written, the event it published
\* (NoRec: none) and its return value.
Outcome(st, tl, raised, data, wrote, event, ret) ==
    [store |-> st, ttl |-> tl, raised |-> raised, data |-> data,
     wrote |-> wrote, event |-> event, ret |-> ret]

_calculate_duration(rec, t) ==
    IF Truthy(rec, "start_time")
    THEN StrTimedelta(t - FromIsoFormat(rec.start_time))
    ELSE "unknown"

\* readFails: the hgetall inside the try block raised
_calculate_elapsed(rec, t, readFails) ==
    IF readFails THEN "N/A"
    ELSE IF rec = NoRec THEN "N/A"
    ELSE IF ~Truthy(rec, "start_time") THEN "N/A"
    ELSE LET start_time == FromIsoFormat(rec.start_time)
             end_time == IF Truthy(rec, "job_finished_time")
                         THEN FromIsoFormat(rec.job_finished_time)
                         ELSE t
         IN StrTimedelta(end_time - start_time)

_calculate_job_elapsed(rec, t, readFails) ==
    IF readFails THEN "N/A"
    ELSE IF rec = NoRec THEN "N/A"
    ELSE IF ~Truthy(rec, "start_time") THEN "N/A"
    ELSE LET start_time == FromIsoFormat(rec.start_time)
             end_time == IF Truthy(rec, "job_finished_time")
                         THEN FromIsoFormat(rec.job_finished_time)
                         ELSE t
         IN StrTimedelta(end_time - start_time)

StartedFaults == {"hset", "expire", "publish"}

mark_session_started(st, tl, t, session_name, command, script_path, F) ==
    LET key == get_session_key(session_name)
        session_data == [session_name |-> session_name,
                         status |-> "running",
                         command |-> command,
                         script_path |-> script_path,
                         start_time |-> IsoFormat(t),
                         last_heartbeat |-> IsoFormat(t),
                         pid |-> ""]
        st1 == [st EXCEPT ![key] = hset(@, session_data)]
        tl1 == [tl EXCEPT ![key] = {t + ExpireSeconds}]
    IN  \* every store call is inside the try block: nothing is raised
        IF "hset" \in F THEN Outcome(st, tl, FALSE, session_data, FALSE, NoRec, "")
        ELSE IF "expire" \in F THEN Outcome(st1, tl, FALSE, session_data, TRUE, NoRec, "")
        ELSE IF "publish" \in F THEN Outcome(st1, tl1, FALSE, session_data, TRUE, NoRec, "")
        ELSE Outcome(st1, tl1, FALSE, session_data, TRUE,
                     _publish_status_update(session_name, t, session_data), "")

FinishedFaults == {"_calculate_duration", "_calculate_elapsed", "hset", "publish"}

mark_session_finished(st, tl, t, session_name, exit_code, F) ==
    LET key == get_session_key(session_name)
        finish_data == [status |-> "finished",
                        exit_code |-> Str(exit_code),
                        end_time |-> IsoFormat(t),
                        duration |-> _calculate_duration(st[key], t),
                        elapsed |-> _calculate_elapsed(st[key], t, "_calculate_elapsed" \in F)]
        st1 == [st EXCEPT ![key] = hset(@, finish_data)]
    IN  \* no try block: a failing store call propagates to the caller
        IF "_calculate_duration" \in F THEN Outcome(st, tl, TRUE, NoRec, FALSE, NoRec, "")
        ELSE IF "hset" \in F THEN Outcome(st, tl, TRUE, finish_data, FALSE, NoRec, "")
        ELSE IF "publish" \in F THEN Outcome(st1, tl, TRUE, finish_data, TRUE, NoRec, "")
        ELSE Outcome(st1, tl, FALSE, finish_data, TRUE,
                     _publish_status_update(session_name, t, finish_data), "")

FailedFaults == {"_calculate_duration", "hset", "publish"}

mark_session_failed(st, tl, t, session_name, error_message, F) ==
    LET key == get_session_key(session_name)
        fail_data == [status |-> "failed",
                      error |-> error_message,
                      end_time |-> IsoFormat(t),
                      duration |-> _calculate_duration(st[key], t)]
        st1 == [st EXCEPT ![key] = hset(@, fail_data)]
    IN  IF "_calculate_duration" \in F THEN Outcome(st, tl, TRUE, NoRec, FALSE, NoRec, "")
        ELSE IF "hset" \in F THEN Outcome(st, tl, TRUE, fail_data, FALSE, NoRec, "")
        ELSE IF "publish" \in F THEN Outcome(st1, tl, TRUE, fail_data, TRUE, NoRec, "")
        ELSE Outcome(st1, tl, FALSE, fail_data, TRUE,
                     _publish_status_update(session_name, t, fail_data), "")

HeartbeatFaults == {"hset"}

\* a heartbeat that also sets status and publishes the update
update_heartbeat_status(st, tl, t, session_name, F) ==
    LET key == get_session_key(session_name)
        data == [last_heartbeat |-> IsoFormat(t), status |-> "running"]
    IN  IF "hset" \in F THEN Outcome(st, tl, TRUE, data, FALSE, NoRec, "")
        ELSE Outcome([st EXCEPT ![key] = hset(@, data)], tl, FALSE, data, TRUE,
                     _publish_status_update(session_name, t, data), "")

update_heartbeat(st, tl, t, session_name, F) ==
    LET key == get_session_key(session_name)
        data == [last_heartbeat |-> IsoFormat(t)]
    IN  IF "hset" \in F THEN Outcome(st, tl, TRUE, data, FALSE, NoRec, "")
        ELSE Outcome([st EXCEPT ![key] = hset(@, data)], tl, FALSE, data, TRUE, NoRec, "")

JobFaults == {"_calculate_job_elapsed", "hset", "publish"}

\* a job completion that also marks the session itself finished
mark_job_finished_session(st, tl, t, session_name, exit_code, F) ==
    LET key == get_session_key(session_name)
        job_finish_data == [status |-> "finished",
                            job_status |-> "finished",
                            job_exit_code |-> Str(exit_code),
                            job_finished_time |-> IsoFormat(t),
                            job_elapsed |-> _calculate_job_elapsed(st[key], t, "_calculate_job_elapsed" \in F)]
        st1 == [st EXCEPT ![key] = hset(@, job_finish_data)]
    IN  IF "hset" \in F THEN Outcome(st, tl, TRUE, job_finish_data, FALSE, NoRec, "")
        ELSE IF "publish" \in F THEN Outcome(st1, tl, TRUE, job_finish_data, TRUE, NoRec, "")
        ELSE Outcome(st1, tl, FALSE, job_finish_data, TRUE,
                     _publish_status_update(session_name, t, job_finish_data), "")

\* a job completion that publishes the event before it writes the fields
mark_job_finished_publish_first(st, tl, t, session_name, exit_code, F) ==
    LET key == get_session_key(session_name)
        job_finish_data == [job_status |-> "finished",
                            job_exit_code |-> Str(exit_code),
                            job_finished_time |-> IsoFormat(t),
                            job_elapsed |-> _calculate_job_elapsed(st[key], t, "_calculate_job_elapsed" \in F)]
        st1 == [st EXCEPT ![key] = hset(@, job_finish_data)]
        event == _publish_status_update(session_name, t, job_finish_data)
    IN  IF "publish" \in F THEN Outcome(st, tl, TRUE, job_finish_data, FALSE, NoRec, "")
        ELSE IF "hset" \in F THEN Outcome(st, tl, TRUE, job_finish_data, FALSE, event, "")
        ELSE Outcome(st1, tl, FALSE, job_finish_data, TRUE, event, "")

mark_job_finished(st, tl, t, session_name, exit_code, F) ==
    LET key == get_session_key(session_name)
        job_finish_data == [job_status |-> "finished",
                            job_exit_code |-> Str(exit_code),
                            job_finished_time |-> IsoFormat(t),
                            job_elapsed |-> _calculate_job_elapsed(st[key], t, "_calculate_job_elapsed" \in F)]
        st1 == [st EXCEPT ![key] = hset(@, job_finish_data)]
    IN  IF "hset" \in F THEN Outcome(st, tl, TRUE, job_finish_data, FALSE, NoRec, "")
        ELSE IF "publish" \in F THEN Outcome(st1, tl, TRUE, job_finish_data, TRUE, NoRec, "")
        ELSE Outcome(st1, tl, FALSE, job_finish_data, TRUE,
                     _publish_status_update(session_name, t, job_finish_data), "")

mark_job_failed(st, tl, t, session_name, error_message, F) ==
    LET key == get_session_key(session_name)
        job_fail_data == [job_status |-> "failed",
                          job_error |-> error_message,
                          job_finished_time |-> IsoFormat(t),
                          job_elapsed |-> _calculate_job_elapsed(st[key], t, "_calculate_job_elapsed" \in F)]
        st1 == [st EXCEPT ![key] = hset(@, job_fail_data)]
    IN  IF "hset" \in F THEN Outcome(st, tl, TRUE, job_fail_data, FALSE, NoRec, "")
        ELSE IF "publish" \in F THEN Outcome(st1, tl, TRUE, job_fail_data, TRUE, NoRec, "")
        ELSE Outcome(st1, tl, FALSE, job_fail_data, TRUE,
                     _publish_status_update(session_name, t, job_fail_data), "")

StatusFaults == {"hgetall"}

\* a read outside any try block, with "unknown" for a missing job_status
get_job_status_no_try(st, tl, session_name, F) ==
    LET session_data == st[get_session_key(session_name)]
    IN  IF "hgetall" \in F THEN Outcome(st, tl, TRUE, NoRec, FALSE, NoRec, "")
        ELSE IF session_data = NoRec THEN Outcome(st, tl, FALSE, NoRec, FALSE, NoRec, "unknown")
        ELSE IF "job_status" \in DOMAIN session_data
             THEN Outcome(st, tl, FALSE, NoRec, FALSE, NoRec, session_data.job_status)
        ELSE Outcome(st, tl, FALSE, NoRec, FALSE, NoRec, "unknown")

get_job_status(st, tl, session_name, F) ==
    LET session_data == st[get_session_key(session_name)]
    IN  \* the whole body is inside the try block
        IF "hgetall" \in F THEN Outcome(st, tl, FALSE, NoRec, FALSE, NoRec, "unknown")
        ELSE IF session_data = NoRec THEN Outcome(st, tl, FALSE, NoRec, FALSE, NoRec, "unknown")
        ELSE IF "job_status" \in DOMAIN session_data
             THEN Outcome(st, tl, FALSE, NoRec, FALSE, NoRec, session_data.job_status)
        ELSE Outcome(st, tl, FALSE, NoRec, FALSE, NoRec, "running")

----------------------------------------------------------------------------
(* The completion helper, scripts/mark_job_finished.py *)

HelperFaults == {"connect", "ping", "ping_timeout"} \cup JobFaults

\* "connect": the ping of DestoRedisClient._initialize_redis fails (any
\* exception: the client keeps redis = None).  "ping": the ping of
\* is_connected raises redis.ConnectionError.  "ping_timeout": it raises
\* another exception (redis.TimeoutError), which is_connected does not catch.
\* The result is the tracker call's outcome and the exit status of the script.
mark_job_finished_py(st, tl, t, session_name, exit_code, F) ==
    LET skipped == Outcome(st, tl, FALSE, NoRec, FALSE, NoRec, "")
        out == IF exit_code = 0
               THEN mark_job_finished(st, tl, t, session_name, exit_code, F)
               ELSE mark_job_failed(st, tl, t, session_name,
                                    "Job exited with code " \o Str(exit_code), F)
    IN  IF "connect" \in F THEN [out |-> skipped, exit |-> 0]
        ELSE IF "ping_timeout" \in F THEN [out |-> skipped, exit |-> 1]
        ELSE IF "ping" \in F THEN [out |-> skipped, exit |-> 0]
        ELSE [out |-> out, exit |-> IF out.raised THEN 1 ELSE 0]

----------------------------------------------------------------------------
(* tmux: the live sessions and the script each one runs *)

\* steps: the commands of the script; pc: the next one; status: $?; var:
\* $SCRIPT_EXIT_CODE; command_exit: the exit status the user command ended with
NoSession ==
    [alive |-> FALSE, steps |-> << >>, pc |-> 0, status |-> 0, var |-> 0, command_exit |-> 0]

\* pc: "idle", or where a launch of the session stands between the start of
\* the tmux process and the registry write; monitor: the monitor thread of
\* start_scheduled_session.py is running
NoProc == [pc |-> "idle", monitor |-> FALSE]

\* The two objects of the dashboard that keep a log_messages list, and the
\* list after construction (sent: the number of messages given so far)
LogOwners == {"LogSection", "UserInterfaceManager"}

NoLog == [log_messages |-> << >>, sent |-> 0]

\* The names `tmux list-sessions` prints
Live(tmuxS) == {n \in Names : tmuxS[n].alive}

\* check_sessions: a non-zero return code of `tmux list-sessions` gives the
\* empty dict
check_sessions(tmuxS, F) == IF "list-sessions" \in F THEN {} ELSE Live(tmuxS)

\* `tmux new-session -d -s name ...`: fails when asked to ("new-session" in F)
\* and when a session of that name exists (tmux: "duplicate session")
new_session_fails(tmuxS, name, F) == "new-session" \in F \/ tmuxS[name].alive

new_session(tmuxS, name, steps) ==
    [tmuxS EXCEPT ![name] = [alive |-> TRUE, steps |-> steps, pc |-> 1, status |-> 0, var |-> 0,
                             command_exit |-> 0]]

get_log_file(session_name) == session_name \o ".log"

finished_marker(session_name) == session_name \o ".finished"

----------------------------------------------------------------------------
(* DestoManager / SessionManager (src/desto/redis/desto_manager.py and      *)
(* session_manager.py are not part of the sources at hand): the registry    *)
(* operations the launchers and the monitor call, as the specification      *)
(* states them, over the tracker's writes.                                   *)

\* transitions the session to running and creates its first job
start_session_with_job(st, tl, t, session_name, command, script_path, keep_alive, F) ==
    mark_session_started(st, tl, t, session_name, command, script_path, F)

\* marks the session (not the job) terminal
finish_session(st, tl, t, session_name, exit_code, F) ==
    mark_session_finished(st, tl, t, session_name, exit_code, F)

manager_update_heartbeat(st, tl, t, session_name, F) ==
    update_heartbeat(st, tl, t, session_name, F)

\* SessionManager.get_session_by_name: the record, NoRec when there is none
get_session_by_name(st, session_name) == st[get_session_key(session_name)]

\* SessionManager.create_session followed by SessionManager.start_session
create_and_start_session(st, tl, t, session_name, F) ==
    mark_session_started(st, tl, t, session_name, "", "", F)

----------------------------------------------------------------------------
(* TmuxManager *)

ConnectFaults == {"connect", "ping1", "ping2"}

\* __init__: DestoRedisClient keeps redis = None when its first ping fails
\* ("connect"); is_connected() is then called twice, for desto_manager and for
\* use_redis.
TmuxManager_init(F) ==
    LET redis == "connect" \notin F
    IN  [desto_manager |-> redis /\ "ping1" \notin F,
         use_redis |-> redis /\ "ping2" \notin F]

\* the completion step always calls the store helper
get_job_completion_command_helper(use_redis) == "mark_job_finished.py"

get_job_completion_command(use_redis) ==
    IF ~use_redis THEN "touch" ELSE "mark_job_finished.py"

\* a script that captures $? after the "script finished" line has been written
bash_script_late_capture(append_mode, keep_alive, use_redis) ==
    (IF append_mode THEN <<"separator", "script_starting">> ELSE <<"script_starting">>)
    \o <<"command", "script_finished", "SCRIPT_EXIT_CODE=$?",
         IF ~use_redis THEN "touch" ELSE "mark_job_finished.py">>
    \o (IF keep_alive THEN <<"tail">> ELSE << >>)

\* the bash script of start_tmux_session, one entry per command
bash_script(append_mode, keep_alive, use_redis) ==
    (IF append_mode THEN <<"separator", "script_starting">> ELSE <<"script_starting">>)
    \o <<"command", "SCRIPT_EXIT_CODE=$?", "script_finished",
         get_job_completion_command(use_redis)>>
    \o (IF keep_alive THEN <<"tail">> ELSE << >>)

\* The state a launch works on, and its result
World(tmuxS, st, tl, mons, cliS, out) ==
    [tmux |-> tmuxS, store |-> st, ttl |-> tl, monitors |-> mons, cli |-> cliS, out |-> out]

Returned(st, tl, ret) == Outcome(st, tl, FALSE, NoRec, FALSE, NoRec, ret)

Raised(st, tl) == Outcome(st, tl, TRUE, NoRec, FALSE, NoRec, "")

LaunchFaults == {"list-sessions", "mkdir", "new-session"} \cup StartedFaults

\* a launcher that registers the session and starts its monitor before it
\* looks at the live sessions
start_tmux_session_track_first(w, manager, fs, t, session_name, command, keep_alive, F) ==
    LET reg == start_session_with_job(w.store, w.ttl, t, session_name, command, command, keep_alive, F)
        steps == bash_script(get_log_file(session_name) \in fs, keep_alive, manager.use_redis)
        mons == [w.monitors EXCEPT ![session_name] = @ + 1]
    IN  IF session_name \in check_sessions(w.tmux, F) \/ "mkdir" \in F
             \/ new_session_fails(w.tmux, session_name, F)
        THEN World(w.tmux, reg.store, reg.ttl, mons, w.cli,
                   [reg EXCEPT !.ret = "already_exists"])
        ELSE World(new_session(w.tmux, session_name, steps), reg.store, reg.ttl, mons,
                   w.cli, [reg EXCEPT !.ret = "started"])

start_tmux_session(w, manager, fs, t, session_name, command, keep_alive, F) ==
    LET existing_sessions == check_sessions(w.tmux, F)
        append_mode == get_log_file(session_name) \in fs
        steps == bash_script(append_mode, keep_alive, manager.use_redis)
        reg == start_session_with_job(w.store, w.ttl, t, session_name, command, command, keep_alive, F)
    IN  IF session_name \in existing_sessions
        THEN [w EXCEPT !.out = Returned(w.store, w.ttl, "already_exists")]
        ELSE IF "mkdir" \in F
        THEN [w EXCEPT !.out = Returned(w.store, w.ttl, "mkdir_failed")]
        ELSE IF new_session_fails(w.tmux, session_name, F)
        THEN [w EXCEPT !.out = Returned(w.store, w.ttl, "tmux_failed")]
        ELSE IF ~manager.desto_manager
        THEN World(new_session(w.tmux, session_name, steps), w.store, w.ttl, w.monitors,
                   w.cli, Returned(w.store, w.ttl, "started"))
        ELSE IF reg.raised
        THEN World(new_session(w.tmux, session_name, steps), reg.store, reg.ttl, w.monitors,
                   w.cli, [reg EXCEPT !.raised = FALSE, !.ret = "unexpected_error"])
        ELSE \* _start_redis_monitoring: desto_manager is set, a thread is started
             World(new_session(w.tmux, session_name, steps), reg.store, reg.ttl,
                   [w.monitors EXCEPT ![session_name] = @ + 1],
                   w.cli, [reg EXCEPT !.ret = "started"])

MonitorFaults == {"list-sessions", "list-sessions-raise"} \cup FinishedFaults

\* a monitor that marks the session finished without leaving its loop
monitor_no_break(w, t, session_name, F) ==
    LET fin == finish_session(w.store, w.ttl, t, session_name, 0, F)
        beat == manager_update_heartbeat(w.store, w.ttl, t, session_name, F)
    IN  IF "list-sessions-raise" \in F THEN [w EXCEPT !.out = Returned(w.store, w.ttl, "error")]
        ELSE IF session_name \notin check_sessions(w.tmux, F)
        THEN World(w.tmux, fin.store, fin.ttl, w.monitors, w.cli,
                   [fin EXCEPT !.raised = FALSE, !.ret = "finish_session"])
        ELSE World(w.tmux, beat.store, beat.ttl, w.monitors, w.cli,
                   [beat EXCEPT !.raised = FALSE, !.ret = "update_heartbeat"])

\* One iteration of the loop of _start_redis_monitoring.monitor.  ret names
\* what the iteration did; an exception is caught inside the loop, which then
\* goes on ("error"); after a finish_session that returned, the loop is left
\* and the thread ends.
monitor(w, t, session_name, F) ==
    LET fin == finish_session(w.store, w.ttl, t, session_name, 0, F)
        beat == manager_update_heartbeat(w.store, w.ttl, t, session_name, F)
    IN  IF "list-sessions-raise" \in F THEN [w EXCEPT !.out = Returned(w.store, w.ttl, "error")]
        ELSE IF session_name \notin check_sessions(w.tmux, F)
        THEN IF fin.raised
             THEN World(w.tmux, fin.store, fin.ttl, w.monitors, w.cli,
                        [fin EXCEPT !.raised = FALSE, !.ret = "finish_session: error"])
             ELSE World(w.tmux, fin.store, fin.ttl,
                        [w.monitors EXCEPT ![session_name] = @ - 1], w.cli,
                        [fin EXCEPT !.ret = "finish_session"])
        ELSE IF beat.raised
             THEN World(w.tmux, beat.store, beat.ttl, w.monitors, w.cli,
                        [beat EXCEPT !.raised = FALSE, !.ret = "update_heartbeat: error"])
             ELSE World(w.tmux, beat.store, beat.ttl, w.monitors, w.cli,
                        [beat EXCEPT !.ret = "update_heartbeat"])

----------------------------------------------------------------------------
(* CLISessionManager *)

CliFaults == {"get_session_by_name", "create_session", "mkdir", "new-session"}

cli_command(keep_alive) == IF keep_alive THEN <<"command", "tail">> ELSE <<"command">>

\* start_session.  The registry calls are outside any try block: a store
\* failure in them propagates to the caller.
start_session(w, fs, t, session_name, command, keep_alive, F) ==
    LET reg == create_and_start_session(w.store, w.ttl, t, session_name, {})
    IN  IF session_name \in w.cli
        THEN [w EXCEPT !.out = Returned(w.store, w.ttl, "False: in memory")]
        ELSE IF "get_session_by_name" \in F
        THEN [w EXCEPT !.out = Raised(w.store, w.ttl)]
        ELSE IF get_session_by_name(w.store, session_name) # NoRec
        THEN [w EXCEPT !.out = Returned(w.store, w.ttl, "False: already exists")]
        ELSE IF "create_session" \in F
        THEN [w EXCEPT !.out = Raised(w.store, w.ttl)]
        ELSE IF "mkdir" \in F
        THEN World(w.tmux, reg.store, reg.ttl, w.monitors, w.cli,
                   [reg EXCEPT !.ret = "False: mkdir failed"])
        ELSE IF new_session_fails(w.tmux, session_name, F)
        THEN World(w.tmux, reg.store, reg.ttl, w.monitors, w.cli,
                   [reg EXCEPT !.ret = "False: tmux failed"])
        ELSE World(new_session(w.tmux, session_name, cli_command(keep_alive)),
                   reg.store, reg.ttl, w.monitors, w.cli \cup {session_name},
                   [reg EXCEPT !.ret = "True"])

----------------------------------------------------------------------------
(* The record of the last call *)

Call(op, name, arg, code, F, before, out, exit) ==
    [op |-> op, name |-> name, arg |-> arg, code |-> code, faults |-> F,
     before |-> before, raised |-> out.raised, data |-> out.data,
     wrote |-> out.wrote, event |-> out.event, ret |-> out.ret, exit |-> exit]

NoCall ==
    [op |-> "none", name |-> "", arg |-> "", code |-> 0, faults |-> {},
     before |-> NoRec, raised |-> FALSE, data |-> NoRec,
     wrote |-> FALSE, event |-> NoRec, ret |-> "", exit |-> 0]

\* a tracker call on session n with outcome out
Apply(op, n, arg, code, F, out, exit) ==
    /\ calls < MaxCalls
    /\ calls' = calls + 1
    /\ store' = out.store
    /\ ttl' = out.ttl
    /\ lastOp' = Call(op, n, arg, code, F, store[get_session_key(n)], out, exit)
    /\ UNCHANGED now

\* a call of the tracker itself: nothing but the store changes
Track(op, n, arg, code, F, out, exit) ==
    /\ Apply(op, n, arg, code, F, out, exit)
    /\ UNCHANGED lvars

----------------------------------------------------------------------------
(* The store when the program starts: empty, or holding the record that an *)
(* earlier session left (the store outlives the processes that use it).    *)

Fresh == [store |-> [k \in Keys |-> NoRec], ttl |-> [k \in Keys |-> {}]]

PriorsFor(n) ==
    LET started == mark_session_started(Fresh.store, Fresh.ttl, 0, n, "cmd", "cmd", {})
        jobDone == mark_job_finished(started.store, started.ttl, 0, n, 0, {})
        jobFailed == mark_job_failed(started.store, started.ttl, 0, n, "error", {})
        ended == mark_session_finished(started.store, started.ttl, 0, n, 0, {})
        doneEnded == mark_session_finished(jobDone.store, jobDone.ttl, 0, n, 0, {})
    IN  {[store |-> o.store, ttl |-> o.ttl] :
            o \in {started, jobDone, jobFailed, ended, doneEnded}}

PriorStates == {Fresh} \cup UNION {PriorsFor(n) : n \in Names}

\* for the launchers: the empty store, or the record of an earlier session
\* that ran to its end
EndedFor(n) ==
    LET started == mark_session_started(Fresh.store, Fresh.ttl, 0, n, "cmd", "cmd", {})
        jobDone == mark_job_finished(started.store, started.ttl, 0, n, 0, {})
        doneEnded == mark_session_finished(jobDone.store, jobDone.ttl, 0, n, 0, {})
    IN  [store |-> doneEnded.store, ttl |-> doneEnded.ttl]

LaunchPriors == {Fresh} \cup {EndedFor(n) : n \in Names}

----------------------------------------------------------------------------
(* Actions of the tracker *)

Init ==
    /\ now = 0
    /\ \E p \in PriorStates : store = p.store /\ ttl = p.ttl
    /\ lastOp = NoCall
    /\ calls = 0
    /\ tmux = [n \in Names |-> NoSession]
    /\ monitors = [n \in Names |-> 0]
    /\ files = {}
    /\ tm = TmuxManager_init({})
    /\ cli = {}
    /\ procs = [n \in Names |-> NoProc]
    /\ logs = [o \in LogOwners |-> NoLog]

Tick ==
    /\ now < MaxTime
    /\ now' = now + 1
    /\ UNCHANGED <<store, ttl, lastOp, calls>>
    /\ UNCHANGED lvars

MarkSessionStarted ==
    \E n \in Names, c \in Commands, F \in FaultSets(StartedFaults) :
        Track("mark_session_started", n, c, 0, F,
              mark_session_started(store, ttl, now, n, c, c, F), 0)

MarkSessionFinished ==
    \E n \in Names, c \in ExitCodes, F \in FaultSets(FinishedFaults) :
        Track("mark_session_finished", n, "", c, F,
              mark_session_finished(store, ttl, now, n, c, F), 0)

MarkSessionFailed ==
    \E n \in Names, F \in FaultSets(FailedFaults) :
        Track("mark_session_failed", n, "error", 0, F,
              mark_session_failed(store, ttl, now, n, "error", F), 0)

UpdateHeartbeat ==
    \E n \in Names, F \in FaultSets(HeartbeatFaults) :
        Track("update_heartbeat", n, "", 0, F,
              update_heartbeat(store, ttl, now, n, F), 0)

MarkJobFinished ==
    \E n \in Names, c \in ExitCodes, F \in FaultSets(JobFaults) :
        Track("mark_job_finished", n, "", c, F,
              mark_job_finished(store, ttl, now, n, c, F), 0)

MarkJobFailed ==
    \E n \in Names, F \in FaultSets(JobFaults) :
        Track("mark_job_failed", n, "error", 0, F,
              mark_job_failed(store, ttl, now, n, "error", F), 0)

GetJobStatus ==
    \E n \in Names, F \in FaultSets(StatusFaults) :
        Track("get_job_status", n, "", 0, F,
              get_job_status(store, ttl, n, F), 0)

MarkJobFinishedPy ==
    \E n \in Names, c \in ExitCodes, F \in FaultSets(HelperFaults) :
        LET r == mark_job_finished_py(store, ttl, now, n, c, F)
        IN  Track("mark_job_finished.py", n, "", c, F, r.out, r.exit)

Next ==
    \/ Tick
    \/ MarkSessionStarted
    \/ MarkSessionFinished
    \/ MarkSessionFailed
    \/ UpdateHeartbeat
    \/ MarkJobFinished
    \/ MarkJobFailed
    \/ GetJobStatus
    \/ MarkJobFinishedPy

Spec == Init /\ [][Next]_vars

----------------------------------------------------------------------------
(* Actions of the launchers, the monitor and the sessions *)

\* a launch or a monitor iteration with result w2
Launch(op, n, arg, F, w2) ==
    /\ Apply(op, n, arg, 0, F, w2.out, 0)
    /\ tmux' = w2.tmux
    /\ monitors' = w2.monitors
    /\ cli' = w2.cli
    /\ UNCHANGED <<files, tm, procs, logs>>

Here == World(tmux, store, ttl, monitors, cli, Returned(store, ttl, ""))

KeepAlive(k) == IF k THEN "keep_alive" ELSE ""

LaunchInit ==
    /\ now = 0
    /\ \E p \in LaunchPriors : store = p.store /\ ttl = p.ttl
    /\ lastOp = NoCall
    /\ calls = 0
    /\ tmux = [n \in Names |-> NoSession]
    /\ monitors = [n \in Names |-> 0]
    /\ files = {}
    /\ \E F \in FaultSets(ConnectFaults) : tm = TmuxManager_init(F)
    /\ cli = {}
    /\ procs = [n \in Names |-> NoProc]
    /\ logs = [o \in LogOwners |-> NoLog]

LaunchTick ==
    /\ now < MaxTime
    /\ now' = now + 1
    /\ UNCHANGED <<store, ttl, lastOp, calls, lvars>>

StartTmuxSession ==
    \E n \in Names, c \in Commands, k \in BOOLEAN, F \in FaultSets(LaunchFaults) :
        Launch("start_tmux_session", n, KeepAlive(k), F,
               start_tmux_session(Here, tm, files, now, n, c, k, F))

CliStartSession ==
    \E n \in Names, c \in Commands, k \in BOOLEAN, F \in FaultSets(CliFaults) :
        Launch("start_session", n, KeepAlive(k), F,
               start_session(Here, files, now, n, c, k, F))

\* one iteration of one of the monitor threads of session n
Monitor ==
    \E n \in Names, F \in FaultSets(MonitorFaults) :
        /\ monitors[n] > 0
        /\ Launch("monitor", n, "", F, monitor(Here, now, n, F))

\* the next command of the script of a live session, other than the store
\* helper; `tail -f /dev/null` never ends
ScriptStep ==
    \E n \in Names :
        LET s == tmux[n]
            step == s.steps[s.pc]
        IN  /\ s.alive /\ s.pc <= Len(s.steps)
            /\ step \notin {"mark_job_finished.py", "tail"}
            /\ \E c \in ExitCodes :
                 /\ step # "command" => c = 0
                 /\ tmux' = [tmux EXCEPT ![n] =
                        [s EXCEPT !.pc = @ + 1,
                                  !.status = IF step = "SCRIPT_EXIT_CODE=$?" THEN s.status ELSE c,
                                  !.var = IF step = "SCRIPT_EXIT_CODE=$?" THEN s.status ELSE @,
                                  !.command_exit = IF step = "command" THEN c ELSE @]]
            /\ files' = IF step = "touch" THEN files \cup {finished_marker(n)}
                        ELSE IF step = "SCRIPT_EXIT_CODE=$?" THEN files
                        ELSE files \cup {get_log_file(n)}
            /\ UNCHANGED <<now, store, ttl, lastOp, calls, monitors, tm, cli, procs, logs>>

\* the completion step of the script: the store helper with $SCRIPT_EXIT_CODE
ScriptHelper ==
    \E n \in Names, F \in FaultSets(HelperFaults) :
        LET s == tmux[n]
            r == mark_job_finished_py(store, ttl, now, n, s.var, F)
        IN  /\ s.alive /\ s.pc <= Len(s.steps)
            /\ s.steps[s.pc] = "mark_job_finished.py"
            /\ Apply("mark_job_finished.py", n, "", s.var, F, r.out, r.exit)
            /\ tmux' = [tmux EXCEPT ![n] = [s EXCEPT !.pc = @ + 1, !.status = r.exit]]
            /\ UNCHANGED <<monitors, files, tm, cli, procs, logs>>

\* the script has run to its end: the tmux session is gone
ScriptEnd ==
    \E n \in Names :
        /\ tmux[n].alive /\ tmux[n].pc > Len(tmux[n].steps)
        /\ tmux' = [tmux EXCEPT ![n] = NoSession]
        /\ UNCHANGED <<now, store, ttl, lastOp, calls, monitors, files, tm, cli, procs, logs>>

\* the session is killed from outside (kill-session, a crash, a reboot)
TmuxKill ==
    \E n \in Names :
        /\ tmux[n].alive
        /\ tmux' = [tmux EXCEPT ![n] = NoSession]
        /\ UNCHANGED <<now, store, ttl, lastOp, calls, monitors, files, tm, cli, procs, logs>>

LaunchNext ==
    \/ LaunchTick
    \/ StartTmuxSession
    \/ CliStartSession
    \/ Monitor
    \/ ScriptStep
    \/ ScriptHelper
    \/ ScriptEnd
    \/ TmuxKill

LaunchSpec == LaunchInit /\ [][LaunchNext]_vars

----------------------------------------------------------------------------
(* Properties of the tracker *)

Rec(n) == store[get_session_key(n)]

\* what get_job_status(name) returns now, with the store reachable
JobStatusNow(n) == get_job_status(store, ttl, n, {}).ret

\* the decimal text of an exit code, written out
Decimal(c) == CASE c = 0 -> "0" [] c = 1 -> "1" [] c = 2 -> "2" [] OTHER -> "?"

\* C1: once mark_session_started(name, ...) has completed with the store
\* reachable, get_job_status(name) returns "running", whatever the store held
\* before.
C1_StartedThenRunning ==
    (lastOp.op = "mark_session_started" /\ lastOp.faults = {})
        => JobStatusNow(lastOp.name) = "running"

\* C2: after mark_job_finished(name, c) with the store reachable, also when it
\* follows earlier completions of the same session with other codes, the call
\* has not raised, get_job_status(name) returns "finished" and the stored
\* job_exit_code is str(c): the last write wins.
C2_LastWriteWins ==
    (lastOp.op = "mark_job_finished" /\ lastOp.faults = {})
        => /\ ~lastOp.raised
           /\ JobStatusNow(lastOp.name) = "finished"
           /\ "job_exit_code" \in DOMAIN Rec(lastOp.name)
           /\ Rec(lastOp.name).job_exit_code = Decimal(lastOp.code)

\* a second completion of a session whose job was already marked finished with
\* another code
C2_Witness ==
    /\ lastOp.op = "mark_job_finished" /\ lastOp.faults = {}
    /\ "job_status" \in DOMAIN lastOp.before /\ lastOp.before.job_status = "finished"
    /\ "job_exit_code" \in DOMAIN lastOp.before
    /\ lastOp.before.job_exit_code # Decimal(lastOp.code)
    /\ Rec(lastOp.name).job_exit_code = Decimal(lastOp.code)

\* C3: get_job_status(name) never raises; it returns the stored job_status
\* when the field is present, "running" when the record exists without it, and
\* "unknown" whenever the store read fails.
C3_GetJobStatusTotal ==
    lastOp.op = "get_job_status"
        => /\ ~lastOp.raised
           /\ "hgetall" \in lastOp.faults => lastOp.ret = "unknown"
           /\ ("hgetall" \notin lastOp.faults /\ "job_status" \in DOMAIN Rec(lastOp.name))
                 => lastOp.ret = Rec(lastOp.name).job_status
           /\ ("hgetall" \notin lastOp.faults /\ Rec(lastOp.name) # NoRec
                 /\ "job_status" \notin DOMAIN Rec(lastOp.name))
                 => lastOp.ret = "running"

\* a read that failed on a record that exists, and a read of a record that
\* has no job_status
C3_Witness ==
    /\ lastOp.op = "get_job_status"
    /\ Rec(lastOp.name) # NoRec
    /\ \/ "hgetall" \in lastOp.faults /\ lastOp.ret = "unknown"
          /\ "job_status" \in DOMAIN Rec(lastOp.name)
       \/ "hgetall" \notin lastOp.faults /\ lastOp.ret = "running"

\* C4: mark_job_finished and mark_job_failed change only the job fields
\* (job_status, job_exit_code or job_error, job_finished_time, job_elapsed):
\* every other field of the record, status, start_time, end_time and exit_code
\* among them, is present after the call exactly when it was before, with the
\* same value; a record whose status is running still has status running.
C4_JobWritesOnlyJobFields ==
    lastOp.op \in {"mark_job_finished", "mark_job_failed"}
        => \A f \in (DOMAIN lastOp.before \cup DOMAIN Rec(lastOp.name)) \ JobFields :
               /\ f \in DOMAIN lastOp.before
               /\ f \in DOMAIN Rec(lastOp.name)
               /\ Rec(lastOp.name)[f] = lastOp.before[f]

\* the job of a running session has been marked finished and the session is
\* still running
C4_Witness ==
    /\ lastOp.op = "mark_job_finished" /\ lastOp.wrote
    /\ "status" \in DOMAIN lastOp.before /\ lastOp.before.status = "running"
    /\ Rec(lastOp.name).status = "running"
    /\ Rec(lastOp.name).job_status = "finished"

\* C9: the completion helper called with (session_name, exit_code) ends with
\* exit status 0 whether the store is reachable, unreachable when it connects,
\* or failing during the write, and with the store reachable the job_status it
\* leaves depends on its arguments alone (calling it again changes nothing).
C9_HelperExitsZero ==
    lastOp.op = "mark_job_finished.py"
        => /\ lastOp.exit = 0
           /\ lastOp.faults = {}
                 => JobStatusNow(lastOp.name) = IF lastOp.code = 0 THEN "finished" ELSE "failed"

TrackerWrites ==
    {"mark_session_started", "mark_session_finished", "mark_session_failed",
     "update_heartbeat", "mark_job_finished", "mark_job_failed"}

\* C10: in every mutating operation of the tracker an event is published only
\* when the store write of the same fields has succeeded, the event carries
\* the fields that were written, and when the publish fails after the write
\* the written fields are in the store.
C10_PublishAfterWrite ==
    lastOp.op \in TrackerWrites
        => /\ lastOp.event # NoRec
                 => /\ "hset" \notin lastOp.faults
                    /\ lastOp.wrote
                    /\ \A f \in DOMAIN lastOp.data :
                           /\ lastOp.event[f] = lastOp.data[f]
                           /\ Rec(lastOp.name)[f] = lastOp.data[f]
           /\ "hset" \in lastOp.faults => lastOp.event = NoRec
           /\ (lastOp.wrote /\ "publish" \in lastOp.faults)
                 => /\ lastOp.event = NoRec
                    /\ \A f \in DOMAIN lastOp.data : Rec(lastOp.name)[f] = lastOp.data[f]

\* an event published after its write, and a write that stays after its
\* publish failed
C10_Witness ==
    /\ lastOp.op = "mark_job_finished"
    /\ lastOp.wrote
    /\ lastOp.faults = {"publish"}
    /\ lastOp.raised
    /\ Rec(lastOp.name).job_status = "finished"
    /\ "job_status" \notin DOMAIN lastOp.before

----------------------------------------------------------------------------
(* Properties of the launchers and the monitor *)

\* the step just taken is a call of op
Called(op) == calls' = calls + 1 /\ lastOp'.op = op

Range(seq) == {seq[i] : i \in DOMAIN seq}

C6_DuplicateRejected ==
    [][ (Called("start_tmux_session") /\ tmux[lastOp'.name].alive)
        => /\ lastOp'.ret \in {"already_exists", "mkdir_failed", "tmux_failed"}
           /\ tmux' = tmux
           /\ store' = store
           /\ ttl' = ttl
           /\ monitors' = monitors
           /\ files' = files ]_vars

\* a launch under the name of a live session, by a manager that tracks
\* sessions in the store, was rejected
C6_Witness ==
    /\ lastOp.op = "start_tmux_session"
    /\ lastOp.ret = "already_exists"
    /\ tmux[lastOp.name].alive
    /\ tm.desto_manager

\* C7: when starting the tmux process fails, the store holds no record for
\* the session name that was not there before the call, for
\* TmuxManager.start_tmux_session and for CLISessionManager.start_session.
C7_FailedStartLeavesNoRecord ==
    (/\ lastOp.op \in {"start_tmux_session", "start_session"}
     /\ lastOp.ret \in {"tmux_failed", "False: tmux failed"})
        => Rec(lastOp.name) = lastOp.before

\* C8: a TmuxManager built while the store was unavailable (desto_manager is
\* None, use_redis is False) still starts the tmux session of a name that is
\* not live, whatever the store does: no registry write is attempted, no
\* monitor is started, and the step after the "script finished" line is the
\* touch of the marker file, not the store helper.
C8_StartsWithoutStore ==
    [][ (/\ Called("start_tmux_session")
         /\ ~tm.desto_manager /\ ~tm.use_redis
         /\ ~tmux[lastOp'.name].alive
         /\ lastOp'.faults \cap {"mkdir", "new-session"} = {})
        => LET steps == tmux'[lastOp'.name].steps
           IN  /\ lastOp'.ret = "started"
               /\ tmux'[lastOp'.name].alive
               /\ "mark_job_finished.py" \notin Range(steps)
               /\ \E i \in DOMAIN steps :
                      /\ steps[i] = "script_finished"
                      /\ i + 1 \in DOMAIN steps
                      /\ steps[i + 1] = "touch"
               /\ ~lastOp'.wrote /\ lastOp'.data = NoRec
               /\ store' = store /\ ttl' = ttl
               /\ monitors' = monitors ]_vars

\* a session started by a manager without store while the store calls fail
C8_Witness ==
    /\ lastOp.op = "start_tmux_session" /\ lastOp.ret = "started"
    /\ ~tm.desto_manager /\ ~tm.use_redis
    /\ "hset" \in lastOp.faults
    /\ tmux[lastOp.name].alive
    /\ monitors[lastOp.name] = 0
    /\ Rec(lastOp.name) = NoRec

----------------------------------------------------------------------------
(* Further properties of the tracker *)

\* C11: a tracker write (mark_session_started, mark_session_finished,
\* mark_session_failed, update_heartbeat, mark_job_finished, mark_job_failed)
\* whose store write or publish fails returns normally to its caller: it does
\* not raise.
C11_WritesSwallowFailures ==
    (lastOp.op \in TrackerWrites /\ lastOp.faults \cap {"hset", "expire", "publish"} # {})
        => ~lastOp.raised

MajorWrites ==
    {"mark_session_started", "mark_session_finished", "mark_session_failed",
     "mark_job_finished", "mark_job_failed"}

\* the time of the call that built the field map data
WriteTime(data) ==
    FromIsoFormat(IF "start_time" \in DOMAIN data THEN data.start_time
                  ELSE IF "end_time" \in DOMAIN data THEN data.end_time
                  ELSE data.job_finished_time)

\* C13: after a major status write (mark_session_started, mark_session_finished,
\* mark_session_failed, mark_job_finished, mark_job_failed) with the store
\* reachable, the key of the record expires 7 days after that write; no record
\* written by one of them is without expiry.
C13_ExpiryRefreshed ==
    (lastOp.op \in MajorWrites /\ lastOp.faults = {})
        => ttl[get_session_key(lastOp.name)] = {WriteTime(lastOp.data) + ExpireSeconds}

\* C14: after mark_job_finished or mark_job_failed with the store reachable on
\* a record that has a start_time, the stored job_elapsed is the stored
\* job_finished_time minus start_time, also when the job had been marked
\* complete before.
C14_JobElapsedMatches ==
    (/\ lastOp.op \in {"mark_job_finished", "mark_job_failed"}
     /\ lastOp.faults = {}
     /\ Truthy(lastOp.before, "start_time"))
        => Rec(lastOp.name).job_elapsed =
               StrTimedelta(FromIsoFormat(Rec(lastOp.name).job_finished_time)
                            - FromIsoFormat(Rec(lastOp.name).start_time))

\* C16: when the record has no start_time (or there is no record),
\* mark_session_finished and mark_session_failed do not raise and store "N/A"
\* as the duration.
C16_DurationSentinel ==
    (/\ lastOp.op \in {"mark_session_finished", "mark_session_failed"}
     /\ lastOp.faults = {}
     /\ ~Truthy(lastOp.before, "start_time"))
        => /\ ~lastOp.raised
           /\ "duration" \in DOMAIN Rec(lastOp.name)
           /\ Rec(lastOp.name).duration = "N/A"

\* C20: when the status of a record is already finished or failed, a further
\* mark_session_finished or mark_session_failed leaves status, exit_code and
\* end_time as they were.
C20_TerminalWritesIdempotent ==
    (/\ lastOp.op \in {"mark_session_finished", "mark_session_failed"}
     /\ lastOp.faults = {}
     /\ "status" \in DOMAIN lastOp.before
     /\ lastOp.before.status \in {"finished", "failed"})
        => \A f \in {"status", "exit_code", "end_time"} :
               /\ f \in DOMAIN Rec(lastOp.name) <=> f \in DOMAIN lastOp.before
               /\ f \in DOMAIN lastOp.before => Rec(lastOp.name)[f] = lastOp.before[f]

----------------------------------------------------------------------------
(* The reads of the tracker *)

ReadFaults == {"hgetall"}

\* get_session_status: the field map, None when the hash is empty; the read
\* is outside any try block
get_session_status(st, tl, session_name, F) ==
    LET session_data == st[get_session_key(session_name)]
    IN  IF "hgetall" \in F THEN Outcome(st, tl, TRUE, NoRec, FALSE, NoRec, "")
        ELSE IF session_data = NoRec THEN Outcome(st, tl, FALSE, NoRec, FALSE, NoRec, "None")
        ELSE Outcome(st, tl, FALSE, session_data, FALSE, NoRec, "dict")

FinishedReadFaults == {"hget"}

is_session_finished(st, tl, session_name, F) ==
    LET rec == st[get_session_key(session_name)]
        finished == "status" \in DOMAIN rec /\ rec.status \in {"finished", "failed"}
    IN  IF "hget" \in F THEN Outcome(st, tl, TRUE, NoRec, FALSE, NoRec, "")
        ELSE Outcome(st, tl, FALSE, NoRec, FALSE, NoRec, IF finished THEN "True" ELSE "False")

ActiveFaults == {"scan_iter", "hgetall"}

\* get_all_active_sessions: scans the keys that hold a hash and keeps the
\* records whose status is running (data: session name -> record)
get_all_active_sessions(st, tl, F) ==
    LET found == {n \in Names : st[get_session_key(n)] # NoRec}
        active == {n \in found : "status" \in DOMAIN st[get_session_key(n)]
                                 /\ st[get_session_key(n)].status = "running"}
        sessions == [n \in active |-> st[get_session_key(n)]]
    IN  IF "scan_iter" \in F THEN Outcome(st, tl, TRUE, NoRec, FALSE, NoRec, "")
        ELSE IF "hgetall" \in F /\ found # {} THEN Outcome(st, tl, TRUE, NoRec, FALSE, NoRec, "")
        ELSE Outcome(st, tl, FALSE, sessions, FALSE, NoRec, "dict")

GetSessionStatus ==
    \E n \in Names, F \in FaultSets(ReadFaults) :
        Track("get_session_status", n, "", 0, F, get_session_status(store, ttl, n, F), 0)

IsSessionFinished ==
    \E n \in Names, F \in FaultSets(FinishedReadFaults) :
        Track("is_session_finished", n, "", 0, F, is_session_finished(store, ttl, n, F), 0)

\* get_all_active_sessions takes no session name and writes nothing
GetAllActiveSessions ==
    \E F \in FaultSets(ActiveFaults) :
        /\ calls < MaxCalls
        /\ calls' = calls + 1
        /\ lastOp' = Call("get_all_active_sessions", "", "", 0, F, NoRec,
                          get_all_active_sessions(store, ttl, F), 0)
        /\ UNCHANGED <<now, store, ttl, lvars>>

ReadNext ==
    \/ Tick
    \/ MarkSessionStarted
    \/ MarkSessionFinished
    \/ MarkSessionFailed
    \/ GetSessionStatus
    \/ IsSessionFinished
    \/ GetAllActiveSessions

ReadSpec == Init /\ [][ReadNext]_vars

\* C12: a store-facing read of the tracker whose store read fails returns
\* instead of raising: get_session_status(name) returns None, and
\* is_session_finished(name) and get_all_active_sessions() return a value.
C12_ReadsAbsorbFailures ==
    (/\ lastOp.op \in {"get_session_status", "is_session_finished", "get_all_active_sessions"}
     /\ lastOp.faults # {})
        => /\ ~lastOp.raised
           /\ lastOp.op = "get_session_status" => lastOp.ret = "None"

----------------------------------------------------------------------------
(* The sessions table of the dashboard *)

\* DestoManager.get_job_status: proxies to the tracker
manager_get_job_status(st, tl, session_name, F) == get_job_status(st, tl, session_name, F)

TableFaults == {"list-sessions", "hgetall"}

\* a table that shows the status field of the session record
add_sessions_table_by_status(manager, sessions_status, st, tl, fs, F) ==
    [session_name \in sessions_status |->
        LET rec == st[get_session_key(session_name)]
        IN  IF "status" \in DOMAIN rec /\ rec.status \in {"finished", "failed"}
            THEN "Finished" ELSE "Running"]

\* add_sessions_table: the Status column, one entry per session of
\* sessions_status
add_sessions_table(manager, sessions_status, st, tl, fs, F) ==
    [session_name \in sessions_status |->
        IF manager.desto_manager
        THEN LET job_status == manager_get_job_status(st, tl, session_name, F).ret
             IN  IF job_status \in {"finished", "failed"} THEN "Finished" ELSE "Running"
        ELSE \* no store: the marker files (no code of the program writes .failed)
             IF finished_marker(session_name) \in fs THEN "Finished" ELSE "Running"]

\* update_sessions_status: lists the live sessions and renders the table
UpdateSessionsStatus ==
    \E F \in FaultSets(TableFaults) :
        /\ calls < MaxCalls
        /\ calls' = calls + 1
        /\ lastOp' = Call("add_sessions_table", "", "", 0, F, NoRec,
                          Outcome(store, ttl, FALSE,
                                  add_sessions_table(tm, check_sessions(tmux, F), store, ttl, files, F),
                                  FALSE, NoRec, ""), 0)
        /\ UNCHANGED <<now, store, ttl, lvars>>

\* The dashboard with a session that was started earlier and is live, over
\* the record the store holds under its name.
TableInit ==
    /\ now = 0
    /\ \E p \in PriorStates : store = p.store /\ ttl = p.ttl
    /\ lastOp = NoCall
    /\ calls = 0
    /\ \E F \in FaultSets(ConnectFaults) : tm = TmuxManager_init(F)
    /\ \E n \in Names, k \in BOOLEAN :
          tmux = new_session([m \in Names |-> NoSession], n, bash_script(FALSE, k, tm.use_redis))
    /\ monitors = [n \in Names |-> 0]
    /\ files = {}
    /\ cli = {}
    /\ procs = [n \in Names |-> NoProc]
    /\ logs = [o \in LogOwners |-> NoLog]

TableNext ==
    \/ LaunchTick
    \/ ScriptStep
    \/ ScriptHelper
    \/ ScriptEnd
    \/ UpdateSessionsStatus

TableSpec == TableInit /\ [][TableNext]_vars

\* C15: in add_sessions_table of a manager built with the store available, a
\* live session is shown as "Finished" exactly when get_job_status returns
\* finished or failed and as "Running" for every other value (running,
\* unknown), whatever the status field of its record.
C15_DisplayFollowsJobStatus ==
    (lastOp.op = "add_sessions_table" /\ tm.desto_manager)
        => \A n \in DOMAIN lastOp.data :
              LET job_status == get_job_status(store, ttl, n, lastOp.faults).ret
              IN  /\ lastOp.data[n] \in {"Finished", "Running"}
                  /\ lastOp.data[n] = "Finished" <=> job_status \in {"finished", "failed"}
                  /\ job_status \in {"running", "unknown"} => lastOp.data[n] = "Running"

\* the table shows "Finished" for a live session whose record still has
\* status running
C15_Witness ==
    /\ lastOp.op = "add_sessions_table" /\ tm.desto_manager
    /\ \E n \in DOMAIN lastOp.data :
          /\ tmux[n].alive
          /\ lastOp.data[n] = "Finished"
          /\ "status" \in DOMAIN Rec(n) /\ Rec(n).status = "running"
          /\ Rec(n).job_status \in {"finished", "failed"}

----------------------------------------------------------------------------
(* The script of a session started by start_tmux_session *)

\* the steps from the start marker on, in the order of the claim
ScriptOrder(steps, keep_alive) ==
    \E i \in DOMAIN steps :
        /\ steps[i] = "script_starting"
        /\ Len(steps) = i + 4 + (IF keep_alive THEN 1 ELSE 0)
        /\ steps[i + 1] = "command"
        /\ steps[i + 2] = "SCRIPT_EXIT_CODE=$?"
        /\ steps[i + 3] = "script_finished"
        /\ steps[i + 4] \in {"mark_job_finished.py", "touch"}
        /\ keep_alive => steps[i + 5] = "tail"

\* C19: the script built by start_tmux_session runs the start marker, the
\* user command, the capture of its exit code, the finished marker and the
\* completion signal in this order, followed by the indefinite block exactly
\* when keep_alive is set; the code handed to the completion signal is the
\* exit code of the user command, whatever the steps in between returned.
C19_ScriptOrderAndExitCode ==
    [][ /\ (Called("start_tmux_session") /\ lastOp'.ret = "started")
            => ScriptOrder(tmux'[lastOp'.name].steps, lastOp'.arg = "keep_alive")
        /\ \A n \in Names :
              (tmux[n].alive /\ tmux'[n].alive)
                  => /\ tmux'[n].steps = tmux[n].steps
                     /\ tmux'[n].pc \in {tmux[n].pc, tmux[n].pc + 1}
        /\ Called("mark_job_finished.py")
            => /\ tmux[lastOp'.name].steps[tmux[lastOp'.name].pc] = "mark_job_finished.py"
               /\ lastOp'.code = tmux[lastOp'.name].command_exit ]_vars

\* the completion helper of a session was called with the non-zero exit code
\* of its command and marked the job failed
C19_Witness ==
    /\ lastOp.op = "mark_job_finished.py"
    /\ lastOp.code # 0
    /\ tmux[lastOp.name].alive
    /\ tmux[lastOp.name].command_exit = lastOp.code
    /\ tmux[lastOp.name].status = 0
    /\ lastOp.wrote
    /\ Rec(lastOp.name).job_status = "failed"

----------------------------------------------------------------------------
(* Launches step by step: the tmux process of a session runs concurrently   *)
(* with the launcher that started it.  scripts/start_scheduled_session.py   *)
(* and its monitor thread.                                                  *)

\* DestoManager.finish_job: marks the job of the session finished
finish_job(st, tl, t, session_name, exit_code, F) ==
    mark_job_finished(st, tl, t, session_name, exit_code, F)

\* SessionManager.finish_session(name): marks the session finished, exit code 0
session_manager_finish_session(st, tl, t, session_name, F) ==
    mark_session_finished(st, tl, t, session_name, 0, F)

SchedMonitorFaults ==
    {"list-sessions", "list-sessions-raise"} \cup StatusFaults \cup JobFaults \cup FinishedFaults

\* The result of an iteration of a monitor thread: the tracker outcome and
\* whether the thread is still running after it
Iteration(out, running) == [out |-> out, running |-> running]

\* One iteration of start_redis_monitoring.monitor.  A non-zero return code
\* of `tmux list-sessions` counts as "session gone"; an exception of the
\* registry calls leaves the loop by `break`, an exception of subprocess.run
\* by the outer except: in both cases the thread ends.
scheduled_monitor(st, tl, tmuxS, t, session_name, F) ==
    LET job_status == manager_get_job_status(st, tl, session_name, F).ret
        job == IF job_status \notin {"finished", "failed"}
               THEN finish_job(st, tl, t, session_name, 0, F)
               ELSE Returned(st, tl, "")
        fin == session_manager_finish_session(job.store, job.ttl, t, session_name, F)
    IN  IF "list-sessions-raise" \in F
        THEN Iteration(Returned(st, tl, "error"), FALSE)
        ELSE IF "list-sessions" \notin F /\ session_name \in Live(tmuxS)
        THEN Iteration(Returned(st, tl, "alive"), TRUE)
        ELSE IF job.raised
        THEN Iteration([job EXCEPT !.raised = FALSE, !.ret = "error"], FALSE)
        ELSE IF fin.raised
        THEN Iteration([fin EXCEPT !.raised = FALSE, !.ret = "error"], FALSE)
        ELSE Iteration([fin EXCEPT !.ret = "finish_session"], FALSE)

\* lines 262-268 of start_tmux_session, reached with desto_manager set after
\* tmux new-session has succeeded: the registry write, then the monitor thread
start_tmux_session_track(st, tl, mons, t, session_name, command, keep_alive, F) ==
    LET reg == start_session_with_job(st, tl, t, session_name, command, command, keep_alive, F)
    IN  IF reg.raised
        THEN [out |-> [reg EXCEPT !.raised = FALSE, !.ret = "unexpected_error"], monitors |-> mons]
        ELSE [out |-> [reg EXCEPT !.ret = "started"],
              monitors |-> [mons EXCEPT ![session_name] = @ + 1]]

ProcessFaults == {"list-sessions", "mkdir", "new-session"}

\* start_tmux_session up to the return of `tmux new-session`
TmuxNewSession ==
    \E n \in Names, c \in Commands, k \in BOOLEAN, F \in FaultSets(ProcessFaults) :
        LET w2 == start_tmux_session(Here, [tm EXCEPT !.desto_manager = FALSE],
                                     files, now, n, c, k, F)
        IN  /\ procs[n].pc = "idle"
            /\ w2.out.ret = "started"
            /\ tmux' = w2.tmux
            /\ procs' = [procs EXCEPT ![n].pc =
                            IF tm.desto_manager THEN "TmuxManager: tmux started" ELSE "idle"]
            /\ UNCHANGED <<now, store, ttl, lastOp, calls, monitors, files, tm, cli, logs>>

\* ... and from there to its end
TmuxTrack ==
    \E n \in Names, c \in Commands, F \in FaultSets(StartedFaults) :
        LET r == start_tmux_session_track(store, ttl, monitors, now, n, c, FALSE, F)
        IN  /\ procs[n].pc = "TmuxManager: tmux started"
            /\ Apply("start_tmux_session", n, "", 0, F, r.out, 0)
            /\ monitors' = r.monitors
            /\ procs' = [procs EXCEPT ![n].pc = "idle"]
            /\ UNCHANGED <<tmux, files, tm, cli, logs>>

\* start_scheduled_session.py, main, up to the return of `tmux new-session`
\* (line 70): the session runs the command as it was given
SchedNewSession ==
    \E n \in Names, F \in FaultSets({"new-session"}) :
        /\ procs[n].pc = "idle"
        /\ ~new_session_fails(tmux, n, F)
        /\ tmux' = new_session(tmux, n, <<"command">>)
        /\ procs' = [procs EXCEPT ![n].pc = "scheduled: tmux started"]
        /\ UNCHANGED <<now, store, ttl, lastOp, calls, monitors, files, tm, cli, logs>>

SchedTrackFaults == {"connect", "ping"} \cup StartedFaults

\* main, lines 78-93: without connection the script ends and the session runs
\* untracked; otherwise the registry write and the monitor thread
SchedTrack ==
    \E n \in Names, c \in Commands, F \in FaultSets(SchedTrackFaults) :
        LET connected == F \cap {"connect", "ping"} = {}
            reg == start_session_with_job(store, ttl, now, n, c, c, FALSE, F)
            out == IF connected THEN [reg EXCEPT !.ret = "tracking"]
                   ELSE Returned(store, ttl, "not available")
        IN  /\ procs[n].pc = "scheduled: tmux started"
            /\ Apply("start_scheduled_session.py", n, "", 0, F, out, 0)
            /\ procs' = [procs EXCEPT ![n] =
                            IF connected THEN [pc |-> "scheduled: tracking", monitor |-> TRUE]
                            ELSE NoProc]
            /\ UNCHANGED <<tmux, monitors, files, tm, cli, logs>>

SchedMonitor ==
    \E n \in Names, F \in FaultSets(SchedMonitorFaults) :
        LET r == scheduled_monitor(store, ttl, tmux, now, n, F)
        IN  /\ procs[n].monitor
            /\ Apply("scheduled monitor", n, "", 0, F, r.out, 0)
            /\ procs' = [procs EXCEPT ![n].monitor = r.running]
            /\ UNCHANGED <<tmux, monitors, files, tm, cli, logs>>

\* main, lines 97-106: once the session is gone (or tmux list-sessions
\* fails) the script ends, and its daemon thread with it
SchedMainPoll ==
    \E n \in Names, F \in FaultSets({"list-sessions"}) :
        /\ procs[n].pc = "scheduled: tracking"
        /\ n \notin check_sessions(tmux, F)
        /\ procs' = [procs EXCEPT ![n] = NoProc]
        /\ UNCHANGED <<now, store, ttl, lastOp, calls, tmux, monitors, files, tm, cli, logs>>

ProcNext ==
    \/ LaunchTick
    \/ TmuxNewSession
    \/ TmuxTrack
    \/ Monitor
    \/ SchedNewSession
    \/ SchedTrack
    \/ SchedMonitor
    \/ SchedMainPoll
    \/ ScriptStep
    \/ ScriptHelper
    \/ ScriptEnd
    \/ TmuxKill

ProcSpec == LaunchInit /\ [][ProcNext]_vars

----------------------------------------------------------------------------
(* Properties of the monitors and of the launch order *)

\* C17: an exception raised in a poll iteration of a session monitor (listing
\* the live sessions, the heartbeat write, the finish write) is caught and the
\* thread keeps polling, for the monitor of TmuxManager and for the monitor of
\* start_scheduled_session.py: no iteration that hit an exception ends the
\* thread.
C17_MonitorSurvivesExceptions ==
    [][ /\ (/\ Called("monitor")
            /\ lastOp'.ret \in {"error", "finish_session: error", "update_heartbeat: error"})
            => monitors'[lastOp'.name] = monitors[lastOp'.name]
        /\ (Called("scheduled monitor") /\ lastOp'.ret = "error")
            => procs'[lastOp'.name].monitor ]_vars

LaunchUnderWay == {"TmuxManager: tmux started", "scheduled: tmux started"}

\* C18: the launcher writes the started-record of a session before it starts
\* the session's process, so the completion helper of the session never
\* writes its completion signal while the launch has not yet written the
\* started-record.
C18_StartedRecordFirst ==
    [][ (Called("mark_job_finished.py") /\ lastOp'.wrote)
        => procs[lastOp'.name].pc \notin LaunchUnderWay ]_vars

----------------------------------------------------------------------------
(* Properties of the heartbeat and of the monitors *)

\* C21: a monitor poll that finds the session in the live session list calls
\* update_heartbeat(name), which writes the last_heartbeat field only and
\* publishes no event: every other field of the record is as before, so a
\* status of running stays running.
C21_HeartbeatOnly ==
    [][ (/\ Called("monitor")
         /\ "list-sessions-raise" \notin lastOp'.faults
         /\ lastOp'.name \in check_sessions(tmux, lastOp'.faults))
        => LET key == get_session_key(lastOp'.name)
           IN  /\ lastOp'.ret \in {"update_heartbeat", "update_heartbeat: error"}
               /\ DOMAIN lastOp'.data = {"last_heartbeat"}
               /\ lastOp'.data.last_heartbeat = IsoFormat(now)
               /\ lastOp'.event = NoRec
               /\ lastOp'.wrote => store'[key].last_heartbeat = IsoFormat(now)
               /\ ~lastOp'.wrote => store' = store
               /\ \A f \in (DOMAIN store[key] \cup DOMAIN store'[key]) \ {"last_heartbeat"} :
                      /\ f \in DOMAIN store[key] /\ f \in DOMAIN store'[key]
                      /\ store'[key][f] = store[key][f]
               /\ ttl' = ttl /\ tmux' = tmux /\ monitors' = monitors ]_vars

\* a poll of a live, running session has moved its heartbeat and nothing else
C21_Witness ==
    /\ lastOp.op = "monitor" /\ lastOp.ret = "update_heartbeat" /\ lastOp.wrote
    /\ tmux[lastOp.name].alive
    /\ "status" \in DOMAIN Rec(lastOp.name) /\ Rec(lastOp.name).status = "running"
    /\ "last_heartbeat" \in DOMAIN lastOp.before
    /\ Rec(lastOp.name).last_heartbeat # lastOp.before.last_heartbeat
    /\ Rec(lastOp.name).start_time = lastOp.before.start_time

\* C22: the monitor of start_scheduled_session.py and the monitor of
\* TmuxManager, both running for a session and polling in the same state with
\* the same outcomes of the tmux and store calls, make the same store writes
\* and both stop, or both go on, at that poll.
C22_MonitorsAgree ==
    \A n \in Names :
        (monitors[n] > 0 /\ procs[n].monitor)
            => \A F \in FaultSets(MonitorFaults \cap SchedMonitorFaults) :
                  LET a == monitor(Here, now, n, F)
                      b == scheduled_monitor(store, ttl, tmux, now, n, F)
                  IN  /\ a.store = b.out.store
                      /\ (a.monitors[n] = monitors[n]) <=> b.running

\* C23: a monitor builds a finish write for a session only when the tmux
\* session is gone: no poll made while the session is alive, whatever
\* `tmux list-sessions` returned, marks it finished.
C23_FinishOnlyWhenGone ==
    [][ ((Called("monitor") \/ Called("scheduled monitor")) /\ tmux[lastOp'.name].alive)
        => /\ lastOp'.ret \notin {"finish_session", "finish_session: error"}
           /\ "status" \in DOMAIN lastOp'.data => lastOp'.data.status # "finished"
           /\ "job_status" \notin DOMAIN lastOp'.data
           /\ \A f \in {"status", "end_time", "exit_code", "job_status"} :
                 /\ f \in DOMAIN store'[get_session_key(lastOp'.name)]
                       <=> f \in DOMAIN store[get_session_key(lastOp'.name)]
                 /\ f \in DOMAIN store[get_session_key(lastOp'.name)]
                       => store'[get_session_key(lastOp'.name)][f]
                              = store[get_session_key(lastOp'.name)][f] ]_vars

\* C24: when main() of start_scheduled_session.py returns after it has seen
\* the session gone, the record of the session has status finished.
C24_FinishedBeforeExit ==
    [][ \A n \in Names :
          (/\ procs[n].pc = "scheduled: tracking"
           /\ procs'[n].pc = "idle"
           /\ ~tmux[n].alive)
             => /\ "status" \in DOMAIN Rec(n)
                /\ Rec(n).status = "finished" ]_vars

----------------------------------------------------------------------------
(* Launches of the dashboard: UserInterfaceManager.run_session_with_keep_alive *)
(* and the recipe dialog (src/desto/app/ui.py).  The script file is a list   *)
(* of lines: "command" (the script's own work) and "tail" (the line          *)
(* `tail -f /dev/null`).                                                     *)

ScriptFiles == {<<"command">>, <<"command", "tail">>}

\* the lines of the script file after the keep-alive edit of lines 490-513
keep_alive_lines(script_lines, keep_alive) ==
    IF keep_alive
    THEN IF "tail" \in {script_lines[i] : i \in DOMAIN script_lines}
         THEN script_lines ELSE script_lines \o <<"tail">>
    ELSE SelectSeq(script_lines, LAMBDA line : line # "tail")

\* the steps of a session whose command is the script with the given lines
with_script(steps, script_lines) ==
    LET i == CHOOSE j \in DOMAIN steps : steps[j] = "command"
    IN  SubSeq(steps, 1, i - 1) \o script_lines \o SubSeq(steps, i + 1, Len(steps))

UiFaults == {"not_a_file", "not_bash", "PermissionError"} \cup LaunchFaults

\* run_session_with_keep_alive: edits the script file, then starts the
\* session without the keep_alive argument
run_session_with_keep_alive(w, manager, fs, t, session_name, script_lines, keep_alive, F) ==
    LET lines == keep_alive_lines(script_lines, keep_alive)
        w2 == start_tmux_session(w, manager, fs, t, session_name, "cmd", FALSE, F)
    IN  IF "not_a_file" \in F THEN [w EXCEPT !.out = Returned(w.store, w.ttl, "not_a_file")]
        ELSE IF "not_bash" \in F THEN [w EXCEPT !.out = Returned(w.store, w.ttl, "not_bash")]
        ELSE IF "PermissionError" \in F
        THEN [w EXCEPT !.out = Returned(w.store, w.ttl, "permission_denied")]
        ELSE IF w2.out.ret = "started"
        THEN [w2 EXCEPT !.tmux[session_name].steps = with_script(@, lines)]
        ELSE w2

\* the recipe dialog: writes the recipe's code to the script file, appends
\* the tail line when the keep-alive switch is on, starts the session
execute_recipe(w, manager, fs, t, session_name, keep_alive, F) ==
    LET lines == IF keep_alive THEN <<"command", "tail">> ELSE <<"command">>
        w2 == start_tmux_session(w, manager, fs, t, session_name, "cmd", FALSE, F)
    IN  IF w2.out.ret = "started"
        THEN [w2 EXCEPT !.tmux[session_name].steps = with_script(@, lines)]
        ELSE w2

RunSessionWithKeepAlive ==
    \E n \in Names, lines \in ScriptFiles, k \in BOOLEAN, F \in FaultSets(UiFaults) :
        Launch("run_session_with_keep_alive", n, KeepAlive(k), F,
               run_session_with_keep_alive(Here, tm, files, now, n, lines, k, F))

ExecuteRecipe ==
    \E n \in Names, k \in BOOLEAN, F \in FaultSets(LaunchFaults) :
        Launch("execute_recipe", n, KeepAlive(k), F,
               execute_recipe(Here, tm, files, now, n, k, F))

UiNext ==
    \/ LaunchTick
    \/ RunSessionWithKeepAlive
    \/ ExecuteRecipe
    \/ ScriptStep
    \/ ScriptHelper
    \/ ScriptEnd
    \/ TmuxKill

UiSpec == LaunchInit /\ [][UiNext]_vars

\* the index of the completion step of a script, 0 when it has none
CompletionStep(steps) ==
    IF \E i \in DOMAIN steps : steps[i] \in {"mark_job_finished.py", "touch"}
    THEN CHOOSE i \in DOMAIN steps : steps[i] \in {"mark_job_finished.py", "touch"}
    ELSE 0

\* C25: in a session launched with keep-alive through
\* run_session_with_keep_alive or the recipe dialog, the completion signal is
\* sent once the script's own work has ended, while the session stays alive.
\* `tail -f /dev/null` never ends and no step after it runs, so this requires
\* that a session which has reached its tail has its completion step behind
\* it.
C25_CompletionBeforeKeepAlive ==
    \A n \in Names :
        (/\ tmux[n].alive
         /\ tmux[n].pc \in DOMAIN tmux[n].steps
         /\ tmux[n].steps[tmux[n].pc] = "tail")
            => /\ CompletionStep(tmux[n].steps) # 0
               /\ CompletionStep(tmux[n].steps) < tmux[n].pc

----------------------------------------------------------------------------
(* SessionStatusTracker.cleanup_old_sessions *)

\* the ages handed to cleanup_old_sessions, in the time unit of the model
HoursOld == {0, 1}

CleanupFaults == {"scan_iter", "hgetall", "delete"}

\* cleanup_old_sessions: deletes every key whose record has an end_time
\* earlier than the cutoff; there is no try block, so a failing store call
\* raises
cleanup_old_sessions(st, tl, t, hours_old, F) ==
    LET cutoff_time == t - hours_old
        found == {n \in Names : st[get_session_key(n)] # NoRec}
        old == {n \in found :
                   /\ Truthy(st[get_session_key(n)], "end_time")
                   /\ FromIsoFormat(st[get_session_key(n)].end_time) < cutoff_time}
        deleted == {get_session_key(n) : n \in old}
        st1 == [k \in Keys |-> IF k \in deleted THEN NoRec ELSE st[k]]
        tl1 == [k \in Keys |-> IF k \in deleted THEN {} ELSE tl[k]]
    IN  IF "scan_iter" \in F THEN Outcome(st, tl, TRUE, NoRec, FALSE, NoRec, "")
        ELSE IF "hgetall" \in F /\ found # {} THEN Outcome(st, tl, TRUE, NoRec, FALSE, NoRec, "")
        ELSE IF "delete" \in F /\ old # {} THEN Outcome(st, tl, TRUE, NoRec, FALSE, NoRec, "")
        ELSE Outcome(st1, tl1, FALSE, NoRec, old # {}, NoRec, "")

CleanupOldSessions ==
    \E h \in HoursOld, F \in FaultSets(CleanupFaults) :
        LET out == cleanup_old_sessions(store, ttl, now, h, F)
        IN  /\ calls < MaxCalls
            /\ calls' = calls + 1
            /\ store' = out.store
            /\ ttl' = out.ttl
            /\ lastOp' = Call("cleanup_old_sessions", "", "", h, F, NoRec, out, 0)
            /\ UNCHANGED <<now, lvars>>

CleanupNext ==
    \/ Tick
    \/ MarkSessionStarted
    \/ MarkSessionFinished
    \/ MarkSessionFailed
    \/ CleanupOldSessions

CleanupSpec == Init /\ [][CleanupNext]_vars

\* C26: cleanup_old_sessions never deletes a record whose status is running,
\* a name reused by a new mark_session_started included.
C26_RunningNeverDeleted ==
    [][Called("cleanup_old_sessions")
          => \A n \in Names :
                ("status" \in DOMAIN Rec(n) /\ Rec(n).status = "running")
                    => store'[get_session_key(n)] = Rec(n)]_vars

----------------------------------------------------------------------------
(* The job fields of a failed job *)

\* C27: a record never holds job_status failed together with job_exit_code 0:
\* a reported failure does not keep the exit code of an earlier successful
\* completion.
C27_FailedWithoutExitZero ==
    \A n \in Names :
        ("job_status" \in DOMAIN Rec(n) /\ Rec(n).job_status = "failed")
            => ~("job_exit_code" \in DOMAIN Rec(n) /\ Rec(n).job_exit_code = "0")

----------------------------------------------------------------------------
(* The files of a session started from the command line *)

\* C28: after a successful CLISessionManager.start_session the marker file
\* <log_dir>/<session_name>.finished of an earlier session of that name no
\* longer exists.
C28_MarkerRemoved ==
    [][(Called("start_session") /\ lastOp'.ret = "True")
          => finished_marker(lastOp'.name) \notin files']_vars

\* the command line handed to tmux (lines 85-99), redirections spelled out:
\* the shell opens the log file with > or >> before it runs a command
full_command(append_mode, keep_alive) ==
    LET redir == IF append_mode THEN ">>" ELSE ">"
    IN  <<redir, "command">> \o (IF keep_alive THEN <<redir, "tail">> ELSE << >>)

\* the log file of the session holds output of a command
log_output(session_name) == get_log_file(session_name) \o ": output"

\* the files after the shell has opened the log file of the session
redirect(fs, session_name, redir) ==
    IF redir = ">"
    THEN (fs \ {log_output(session_name)}) \cup {get_log_file(session_name)}
    ELSE fs \cup {get_log_file(session_name)}

\* start_session, the command line of the session with its redirections
CliStartSessionLog ==
    \E n \in Names, c \in Commands, k \in BOOLEAN, F \in FaultSets(CliFaults) :
        LET w2 == start_session(Here, files, now, n, c, k, F)
        IN  Launch("start_session", n, KeepAlive(k), F,
                   IF w2.out.ret = "True"
                   THEN [w2 EXCEPT !.tmux[n].steps =
                                      full_command(get_log_file(n) \in files, k)]
                   ELSE w2)

\* the next step of the command line of a live session; `tail -f /dev/null`
\* never ends
CliScriptStep ==
    \E n \in Names :
        LET s == tmux[n]
            step == s.steps[s.pc]
        IN  /\ s.alive /\ s.pc <= Len(s.steps)
            /\ step # "tail"
            /\ \E c \in ExitCodes :
                 /\ step # "command" => c = s.status
                 /\ tmux' = [tmux EXCEPT ![n] =
                        [s EXCEPT !.pc = @ + 1,
                                  !.status = c,
                                  !.command_exit = IF step = "command" THEN c ELSE @]]
            /\ files' = IF step = "command" THEN files \cup {log_output(n)}
                        ELSE redirect(files, n, step)
            /\ UNCHANGED <<now, store, ttl, lastOp, calls, monitors, tm, cli, procs, logs>>

\* the log directory when the program starts: empty, or holding the log file
\* of an earlier session
LogDirs == {{}} \cup {{get_log_file(n), log_output(n)} : n \in Names}

CliInit ==
    /\ now = 0
    /\ \E p \in LaunchPriors : store = p.store /\ ttl = p.ttl
    /\ lastOp = NoCall
    /\ calls = 0
    /\ tmux = [n \in Names |-> NoSession]
    /\ monitors = [n \in Names |-> 0]
    /\ files \in LogDirs
    /\ \E F \in FaultSets(ConnectFaults) : tm = TmuxManager_init(F)
    /\ cli = {}
    /\ procs = [n \in Names |-> NoProc]
    /\ logs = [o \in LogOwners |-> NoLog]

CliNext ==
    \/ LaunchTick
    \/ CliStartSessionLog
    \/ CliScriptStep
    \/ ScriptEnd

CliSpec == CliInit /\ [][CliNext]_vars

\* C29: in a session started with keep_alive the output of the command is
\* still in the log file once the command has ended and the keep-alive tail
\* runs, whether the log file existed before the launch or not.
C29_OutputKept ==
    \A n \in Names :
        (/\ tmux[n].alive
         /\ tmux[n].pc \in DOMAIN tmux[n].steps
         /\ tmux[n].steps[tmux[n].pc] = "tail")
            => log_output(n) \in files

----------------------------------------------------------------------------
(* The log messages of the dashboard: LogSection.update_log_messages and    *)
(* UserInterfaceManager.update_log_messages (the same code)                 *)

\* the i-th message that arrives, counted from 0
Message(i) == "Message " \o ToString(i)

\* list.pop(0)
pop0(list) == SubSeq(list, 2, Len(list))

\* a rotation that drops the newest message instead of the oldest
update_log_messages_pop_last(log_messages, message, number_of_lines) ==
    LET appended == Append(log_messages, message)
    IN  IF Len(appended) > number_of_lines
        THEN SubSeq(appended, 1, Len(appended) - 1)
        ELSE appended

update_log_messages(log_messages, message, number_of_lines) ==
    LET appended == Append(log_messages, message)
    IN  IF Len(appended) > number_of_lines THEN pop0(appended) ELSE appended

\* a message arrives at one of the two owners, with the default limit
UpdateLogMessages ==
    \E o \in LogOwners :
        /\ logs[o].sent < MaxMessages
        /\ logs' = [logs EXCEPT ![o] =
                       [log_messages |-> update_log_messages(logs[o].log_messages,
                                                             Message(logs[o].sent),
                                                             DefaultNumberOfLines),
                        sent |-> logs[o].sent + 1]]
        /\ UNCHANGED <<now, store, ttl, lastOp, calls, tmux, monitors, files, tm, cli, procs>>

LogNext == UpdateLogMessages

LogSpec == Init /\ [][LogNext]_vars

\* C30: with the default limit log_messages holds at most 20 entries, and
\* they are exactly the most recent messages in arrival order (after 25
\* messages: messages 5 to 24).
C30_LastTwentyInOrder ==
    \A o \in LogOwners :
        LET list == logs[o].log_messages
            sent == logs[o].sent
        IN  /\ Len(list) <= 20
            /\ Len(list) = IF sent < 20 THEN sent ELSE 20
            /\ \A i \in 1..Len(list) : list[i] = Message(sent - Len(list) + i - 1)

C30_Witness ==
    \E o \in LogOwners :
        /\ logs[o].sent = 25
        /\ Len(logs[o].log_messages) = 20
        /\ logs[o].log_messages[1] = "Message 5"
        /\ logs[o].log_messages[20] = "Message 24"

====
